---- MODULE Spec2Model ----
(***************************************************************************)
(* A model of the caddy-paseto authentication provider (package            *)
(* caddypaseto): token collection, normalisation, the per-candidate        *)
(* Authenticate loop, identity resolution and metadata extraction.         *)
(*                                                                         *)
(* Go strings are sequences of one-character strings, so that prefix       *)
(* stripping, trimming, masking, splitting and joining are computed the    *)
(* way the code computes them.                                             *)
(***************************************************************************)
EXTENDS Integers, Sequences, FiniteSets, TLC

VARIABLES
    p,                \* the PasetoAuth configuration (module.go:22-120)
    r,                \* the *http.Request of the call
    pc,               \* position of Authenticate: "start", "loop", "done"
    candidates,       \* module.go:178 local
    extraValidRules,  \* module.go:184 local
    checked,          \* module.go:192 local
    idx,              \* position of the range loop of module.go:193
    ret,              \* the (caddyauth.User, bool, error) returned
    parsed,           \* calls made to xpaseto.ParseToken, in order
    validated,        \* calls made to token.Validate, in order
    log,              \* records handed to p.logger, in order
    fn                \* input and output of the pure function under check

vars == <<p, r, pc, candidates, extraValidRules, checked, idx, ret,
          parsed, validated, log, fn>>

authVars == <<p, r, pc, candidates, extraValidRules, checked, idx, ret,
              parsed, validated, log>>

----------------------------------------------------------------------------
(* Strings *)

Upper == <<"A","B","C","D","E","F","G","H","I","J","K","L","M",
           "N","O","P","Q","R","S","T","U","V","W","X","Y","Z">>

Lower == <<"a","b","c","d","e","f","g","h","i","j","k","l","m",
           "n","o","p","q","r","s","t","u","v","w","x","y","z">>

\* unicode.ToLower on one ASCII character
ToLowerChar(c) ==
    IF \E i \in 1..Len(Upper) : Upper[i] = c
    THEN Lower[CHOOSE i \in 1..Len(Upper) : Upper[i] = c]
    ELSE c

\* strings.ToLower
ToLower(s) == [i \in 1..Len(s) |-> ToLowerChar(s[i])]

\* strings.HasPrefix
HasPrefix(s, prefix) ==
    /\ Len(s) >= Len(prefix)
    /\ SubSeq(s, 1, Len(prefix)) = prefix

\* unicode.IsSpace, on the ASCII white space
IsSpace(c) == c \in {" ", "\t", "\n", "\r"}

\* strings.TrimSpace
TrimSpace(s) ==
    LET keep == {i \in 1..Len(s) : ~IsSpace(s[i])}
    IN  IF keep = {} THEN <<>>
        ELSE LET lo == CHOOSE i \in keep : \A j \in keep : i <= j
                 hi == CHOOSE i \in keep : \A j \in keep : i >= j
             IN  SubSeq(s, lo, hi)

\* Go's built-in min
min(a, b) == IF a <= b THEN a ELSE b

\* slices.Contains
Contains(list, x) == \E i \in 1..Len(list) : list[i] = x

Range(list) == {list[i] : i \in 1..Len(list)}

\* the literal "bearer " of normToken
bearer == <<"b","e","a","r","e","r"," ">>

\* the literal "..." of maskToken
ellipsis == <<".",".",".">>

MaskShort == 6

MaskPart == 16

\* a maskToken that keeps half of the token on each side
maskToken_Half(token) ==
    IF Len(token) <= MaskShort THEN token
    ELSE LET mask == min(Len(token) \div 2, MaskPart)
         IN  SubSeq(token, 1, mask) \o ellipsis
               \o SubSeq(token, Len(token) - mask + 1, Len(token))

maskToken(token) ==
    IF Len(token) <= MaskShort THEN token
    ELSE LET mask == min(Len(token) \div 3, MaskPart)
         IN  SubSeq(token, 1, mask) \o ellipsis
               \o SubSeq(token, Len(token) - mask + 1, Len(token))

\* a normToken that compares the prefix without folding the case
normToken_CaseSensitive(token) ==
    IF HasPrefix(token, bearer)
    THEN TrimSpace(SubSeq(token, Len(bearer) + 1, Len(token)))
    ELSE TrimSpace(token)

normToken(token) ==
    IF HasPrefix(ToLower(token), bearer)
    THEN TrimSpace(SubSeq(token, Len(bearer) + 1, Len(token)))
    ELSE TrimSpace(token)

----------------------------------------------------------------------------
(* Claim values: what token.ClaimsRaw() holds after JSON decoding.         *)
(* A claim set is a function from claim names to claim values; a claim is  *)
(* present when its name is in the DOMAIN.                                 *)

StrVal(s)   == [kind |-> "string", s |-> s]
NumVal(n)   == [kind |-> "float64", n |-> n]
BoolVal(b)  == [kind |-> "bool", b |-> b]
NullVal     == [kind |-> "nil"]
SliceVal(e) == [kind |-> "slice", elems |-> e]
MapVal(m)   == [kind |-> "map", m |-> m]

NoClaims == [x \in {} |-> NullVal]

Digits == <<"0","1","2","3","4","5","6","7","8","9">>

RECURSIVE FormatNat(_)
FormatNat(n) ==
    IF n < 10 THEN <<Digits[n + 1]>>
    ELSE FormatNat(n \div 10) \o <<Digits[(n % 10) + 1]>>

\* strconv.FormatFloat(val, 'f', -1, 64) on an integral float64
FormatFloat(n) == IF n < 0 THEN <<"-">> \o FormatNat(-n) ELSE FormatNat(n)

\* strconv.FormatBool
FormatBool(b) == IF b THEN <<"t","r","u","e">> ELSE <<"f","a","l","s","e">>

RECURSIVE Join(_, _)
\* strings.Join
Join(elems, sep) ==
    IF Len(elems) = 0 THEN <<>>
    ELSE IF Len(elems) = 1 THEN elems[1]
    ELSE elems[1] \o sep \o Join(Tail(elems), sep)

RECURSIVE Split(_, _)
\* strings.Split with a one-character separator
Split(s, sep) ==
    IF \E i \in 1..Len(s) : s[i] = sep
    THEN LET k == CHOOSE i \in 1..Len(s) :
                     /\ s[i] = sep
                     /\ \A j \in 1..(i - 1) : s[j] # sep
         IN  <<SubSeq(s, 1, k - 1)>> \o Split(SubSeq(s, k + 1, Len(s)), sep)
    ELSE <<s>>

RECURSIVE stringify(_)
\* a stringifySlice that joins with a comma and a space
stringifySlice_Spaced(slice) ==
    Join([i \in 1..Len(slice) |-> stringify(slice[i])], <<",", " ">>)

stringifySlice(slice) ==
    Join([i \in 1..Len(slice) |-> stringify(slice[i])], <<",">>)

stringify(val) ==
    CASE val.kind = "nil"     -> <<>>
      [] val.kind = "string"  -> val.s
      [] val.kind = "bool"    -> FormatBool(val.b)
      [] val.kind = "float64" -> FormatFloat(val.n)
      [] val.kind = "slice"   -> stringifySlice(val.elems)
      [] OTHER                -> <<>>

\* the (name, value) pair returned by getUserID
getUserID(claims, names) ==
    LET hit(i) == /\ names[i] \in DOMAIN claims
                  /\ claims[names[i]].kind \in {"string", "float64"}
        hits == {i \in 1..Len(names) : hit(i)}
    IN  IF hits = {} THEN [name |-> <<>>, id |-> <<>>]
        ELSE LET i == CHOOSE k \in hits : \A j \in hits : k <= j
                 val == claims[names[i]]
             IN  [name |-> names[i],
                  id   |-> IF val.kind = "string" THEN val.s
                           ELSE FormatFloat(val.n)]

RECURSIVE queryNestedWalk(_, _, _)
\* the loop of queryNested: it runs over every index of path, the last
\* included, and the return after it reads object[lastKey]
queryNestedWalk(object, path, i) ==
    IF i > Len(path)
    THEN LET lastKey == path[Len(path)]
         IN  [val |-> IF lastKey \in DOMAIN object
                      THEN object[lastKey] ELSE NullVal,
              ok  |-> TRUE]
    ELSE IF path[i] \in DOMAIN object /\ object[path[i]].kind = "map"
         THEN queryNestedWalk(object[path[i]].m, path, i + 1)
         ELSE [val |-> NullVal, ok |-> FALSE]

queryNested(claims, path) == queryNestedWalk(claims, path, 1)

\* the string one meta-claim contributes (util.go:84-94)
metaValue(claims, claimName) ==
    IF claimName \in DOMAIN claims THEN stringify(claims[claimName])
    ELSE IF \E i \in 1..Len(claimName) : claimName[i] = "."
         THEN LET q == queryNested(claims, Split(claimName, "."))
              IN  IF q.ok THEN stringify(q.val) ELSE <<>>
         ELSE <<>>

NilMetadata == [isNil |-> TRUE, kv |-> [x \in {} |-> <<>>]]

\* getUserMetadata ranges over a Go map, whose iteration order is not
\* fixed: when two claims share a placeholder the last one written wins,
\* so the operator is the set of the maps the call can return.
getUserMetadata(claims, placeholdersMap) ==
    IF DOMAIN placeholdersMap = {} THEN {NilMetadata}
    ELSE LET phs == {placeholdersMap[c] : c \in DOMAIN placeholdersMap}
             writers(ph) == {c \in DOMAIN placeholdersMap :
                                placeholdersMap[c] = ph}
         IN  {[isNil |-> FALSE, kv |-> kv] :
                kv \in {f \in [phs -> {metaValue(claims, c) :
                                          c \in DOMAIN placeholdersMap}] :
                          \A ph \in phs :
                            \E c \in writers(ph) :
                               f[ph] = metaValue(claims, c)}}

----------------------------------------------------------------------------
(* Names and values used by the configurations, requests and tokens *)

sub      == <<"s","u","b">>
uid      == <<"u","i","d">>
aud      == <<"a","u","d">>
iss      == <<"i","s","s">>
issuer   == <<"i","s","s","u","e","r">>
qToken   == <<"t","o","k","e","n">>
qT2      == <<"t","2">>
hXToken  == <<"X","-","T","o","k","e","n">>
hAuthorization == <<"A","u","t","h","o","r","i","z","a","t","i","o","n">>
cAuth    == <<"a","u","t","h">>

user1 == <<"u","1">>
user2 == <<"u","2">>
user3 == <<"u","3">>
aud1  == <<"a","1">>
aud2  == <<"a","2">>
iss1  == <<"i","1">>
iss2  == <<"i","2">>

tokV1 == <<"v","4",".","p","u","b",".","v","1">>
tokV2 == <<"v","2">>
tokEx == <<"e","x">>
tokNu == <<"n","u">>

\* The tokens the key of the configuration verifies, with the claims each
\* carries and whether its iat/nbf/exp are within the tolerance of now.
\* Any other string is not a token.
TokenTable ==
    (tokV1 :> [timeOK |-> TRUE,
               claims |-> (sub :> StrVal(user1)) @@ (aud :> StrVal(aud1))
                            @@ (iss :> StrVal(iss1))])
 @@ (tokV2 :> [timeOK |-> TRUE,
               claims |-> (sub :> StrVal(user2)) @@ (uid :> NumVal(42))])
 @@ (tokEx :> [timeOK |-> FALSE,
               claims |-> (sub :> StrVal(user3)) @@ (aud :> StrVal(aud1))
                            @@ (iss :> StrVal(iss1))])
 @@ (tokNu :> [timeOK |-> TRUE,
               claims |-> (uid :> StrVal(<<>>)) @@ (aud :> StrVal(aud1))
                            @@ (iss :> StrVal(iss1))])

\* xpaseto.ParseToken(p.key, tokenStr): the token, or a parse error
ParseToken(tokenStr) ==
    IF tokenStr \in DOMAIN TokenTable
    THEN [err |-> FALSE, token |-> TokenTable[tokenStr]]
    ELSE [err |-> TRUE, token |-> [timeOK |-> FALSE, claims |-> NoClaims]]

\* xpaseto.AllowAudiences(list) and xpaseto.AllowIssuers(list), as the
\* fields AllowAudiences and AllowIssuers document them: the claim must
\* exist in the payload and its value must be in the list.
RuleAllows(rule, claims) ==
    /\ rule.claim \in DOMAIN claims
    /\ claims[rule.claim].kind = "string"
    /\ Contains(rule.allowed, claims[rule.claim].s)

\* token.Validate(time.Now, p.TimeSkewTolerance, extraValidRules...)
TokenValidate(token, rules) ==
    /\ token.timeOK
    /\ \A i \in 1..Len(rules) : RuleAllows(rules[i], token.claims)

\* r.URL.Query().Get / r.Header.Get / r.Cookie: the value, "" when absent
Get(carrier, key) == IF key \in DOMAIN carrier THEN carrier[key] ELSE <<>>

\* the loop shared by getTokensFromHeader, -Query and -Cookies
RECURSIVE getTokens(_, _)
getTokens(carrier, names) ==
    IF names = <<>> THEN <<>>
    ELSE (IF Get(carrier, Head(names)) # <<>>
          THEN <<Get(carrier, Head(names))>> ELSE <<>>)
         \o getTokens(carrier, Tail(names))

getTokensFromHeader(req, names)  == getTokens(req.header, names)
getTokensFromQuery(req, names)   == getTokens(req.query, names)
getTokensFromCookies(req, names) == getTokens(req.cookies, names)

----------------------------------------------------------------------------
(* PasetoAuth.Authenticate *)

\* a mutant of Candidates: the headers are read before the query
Candidates_HeaderFirst(req) ==
    getTokensFromHeader(req, p.FromHeader)
      \o getTokensFromQuery(req, p.FromQuery)
      \o getTokensFromCookies(req, p.FromCookies)
      \o getTokensFromHeader(req, <<hAuthorization>>)

\* module.go:178-182
Candidates(req) ==
    getTokensFromQuery(req, p.FromQuery)
      \o getTokensFromHeader(req, p.FromHeader)
      \o getTokensFromCookies(req, p.FromCookies)
      \o getTokensFromHeader(req, <<hAuthorization>>)

\* a mutant of ExtraValidRules: the issuer rule is left out
ExtraValidRules_NoIssuers ==
    IF Len(p.AllowAudiences) > 0
    THEN <<[claim |-> aud, allowed |-> p.AllowAudiences]>> ELSE <<>>

\* a mutant of ExtraValidRules: the audience rule is added even when
\* allow_audiences is empty
ExtraValidRules_AlwaysAudiences ==
    <<[claim |-> aud, allowed |-> p.AllowAudiences]>>
    \o (IF Len(p.AllowIssuers) > 0
        THEN <<[claim |-> iss, allowed |-> p.AllowIssuers]>> ELSE <<>>)

\* module.go:184-190
ExtraValidRules ==
    (IF Len(p.AllowAudiences) > 0
     THEN <<[claim |-> aud, allowed |-> p.AllowAudiences]>> ELSE <<>>)
    \o (IF Len(p.AllowIssuers) > 0
        THEN <<[claim |-> iss, allowed |-> p.AllowIssuers]>> ELSE <<>>)

\* module.go:194
tokenStr == normToken(candidates[idx])

\* a mutant of MarkChecked: the token is not recorded as checked
MarkChecked_Forget(tok) == checked

\* module.go:200
MarkChecked(tok) == checked \cup {tok}

\* a mutant of UserIDEmpty: the empty identity is not detected
UserIDEmpty_Never(userID) == FALSE

\* module.go:215
UserIDEmpty(userID) == userID = <<>>

\* a mutant of UserAllowed: the allow-list is not consulted
UserAllowed_Always(userID) == TRUE

\* module.go:220, negated: the user passes the allow-list
UserAllowed(userID) ==
    ~(Len(p.AllowUsers) > 0 /\ ~Contains(p.AllowUsers, userID))

EmptyUser == [ID |-> <<>>, Metadata |-> NilMetadata]

\* a record that carries the token as it was received
LogRecord_RawToken(level, msg, userID) ==
    [i |-> idx, level |-> level, token |-> tokenStr,
     msg |-> msg, user_id |-> userID]

LogRecord(level, msg, userID) ==
    [i |-> idx, level |-> level, token |-> maskToken(tokenStr),
     msg |-> msg, user_id |-> userID]

InLoop == pc = "loop" /\ idx <= Len(candidates)

\* module.go:178-192: collect the candidates and compose the rules
Collect ==
    /\ pc = "start"
    /\ candidates' = Candidates(r)
    /\ extraValidRules' = ExtraValidRules
    /\ checked' = {}
    /\ idx' = 1
    /\ pc' = "loop"
    /\ UNCHANGED <<p, r, ret, parsed, validated, log, fn>>

\* module.go:195-197
SkipDuplicate ==
    /\ InLoop
    /\ tokenStr \in checked
    /\ idx' = idx + 1
    /\ UNCHANGED <<p, r, pc, candidates, extraValidRules, checked, ret,
                   parsed, validated, log, fn>>

\* a mutant of ParseFail: the parse error is returned to the caller
ParseFail_ReturnErr ==
    /\ InLoop
    /\ tokenStr \notin checked
    /\ ParseToken(tokenStr).err
    /\ parsed' = Append(parsed, [i |-> idx, tokenStr |-> tokenStr])
    /\ checked' = MarkChecked(tokenStr)
    /\ log' = Append(log, LogRecord("WARN", "parse error", <<>>))
    /\ ret' = [user |-> EmptyUser, authenticated |-> FALSE,
               err |-> "parse error"]
    /\ pc' = "done"
    /\ UNCHANGED <<p, r, candidates, extraValidRules, idx, validated, fn>>

\* module.go:199-206
ParseFail ==
    /\ InLoop
    /\ tokenStr \notin checked
    /\ ParseToken(tokenStr).err
    /\ parsed' = Append(parsed, [i |-> idx, tokenStr |-> tokenStr])
    /\ checked' = MarkChecked(tokenStr)
    /\ log' = Append(log, LogRecord("WARN", "parse error", <<>>))
    /\ idx' = idx + 1
    /\ UNCHANGED <<p, r, pc, candidates, extraValidRules, ret, validated, fn>>

\* module.go:199-212
ValidateFail ==
    /\ InLoop
    /\ tokenStr \notin checked
    /\ ~ParseToken(tokenStr).err
    /\ ~TokenValidate(ParseToken(tokenStr).token, extraValidRules)
    /\ parsed' = Append(parsed, [i |-> idx, tokenStr |-> tokenStr])
    /\ checked' = MarkChecked(tokenStr)
    /\ validated' = Append(validated, [i |-> idx, tokenStr |-> tokenStr,
                                       rules |-> extraValidRules])
    /\ log' = Append(log, LogRecord("WARN", "validation error", <<>>))
    /\ idx' = idx + 1
    /\ UNCHANGED <<p, r, pc, candidates, extraValidRules, ret, fn>>

\* the candidate parsed and validated (module.go:199-212 passed)
Verified ==
    /\ InLoop
    /\ tokenStr \notin checked
    /\ ~ParseToken(tokenStr).err
    /\ TokenValidate(ParseToken(tokenStr).token, extraValidRules)
    /\ parsed' = Append(parsed, [i |-> idx, tokenStr |-> tokenStr])
    /\ checked' = MarkChecked(tokenStr)
    /\ validated' = Append(validated, [i |-> idx, tokenStr |-> tokenStr,
                                       rules |-> extraValidRules])

\* module.go:214
resolved == getUserID(ParseToken(tokenStr).token.claims, p.UserClaims)

\* module.go:199-218
NoUserID ==
    /\ Verified
    /\ UserIDEmpty(resolved.id)
    /\ log' = Append(log, LogRecord("WARN", "user claim is empty", <<>>))
    /\ idx' = idx + 1
    /\ UNCHANGED <<p, r, pc, candidates, extraValidRules, ret, fn>>

\* a mutant of UserNotAllowed: the failure ends the request
UserNotAllowed_Abort ==
    /\ Verified
    /\ ~UserIDEmpty(resolved.id)
    /\ ~UserAllowed(resolved.id)
    /\ log' = Append(log, LogRecord("WARN", "user is not allowed",
                                    resolved.id))
    /\ ret' = [user |-> EmptyUser, authenticated |-> FALSE, err |-> "nil"]
    /\ pc' = "done"
    /\ UNCHANGED <<p, r, candidates, extraValidRules, idx, fn>>

\* module.go:199-223
UserNotAllowed ==
    /\ Verified
    /\ ~UserIDEmpty(resolved.id)
    /\ ~UserAllowed(resolved.id)
    /\ log' = Append(log, LogRecord("WARN", "user is not allowed",
                                    resolved.id))
    /\ idx' = idx + 1
    /\ UNCHANGED <<p, r, pc, candidates, extraValidRules, ret, fn>>

\* a mutant of Accept: the loop goes on after the acceptance
Accept_NoReturn ==
    /\ Verified
    /\ ~UserIDEmpty(resolved.id)
    /\ UserAllowed(resolved.id)
    /\ \E md \in getUserMetadata(ParseToken(tokenStr).token.claims,
                                 p.MetaClaims) :
          ret' = [user |-> [ID |-> resolved.id, Metadata |-> md],
                  authenticated |-> TRUE, err |-> "nil"]
    /\ log' = Append(log, LogRecord("INFO", "user authenticated",
                                    resolved.id))
    /\ idx' = idx + 1
    /\ UNCHANGED <<p, r, pc, candidates, extraValidRules, fn>>

\* module.go:199-232
Accept ==
    /\ Verified
    /\ ~UserIDEmpty(resolved.id)
    /\ UserAllowed(resolved.id)
    /\ \E md \in getUserMetadata(ParseToken(tokenStr).token.claims,
                                 p.MetaClaims) :
          ret' = [user |-> [ID |-> resolved.id, Metadata |-> md],
                  authenticated |-> TRUE, err |-> "nil"]
    /\ log' = Append(log, LogRecord("INFO", "user authenticated",
                                    resolved.id))
    /\ pc' = "done"
    /\ UNCHANGED <<p, r, candidates, extraValidRules, idx, fn>>

\* module.go:235
Exhausted ==
    /\ pc = "loop"
    /\ idx > Len(candidates)
    /\ ret' = [user |-> EmptyUser, authenticated |-> FALSE, err |-> "nil"]
    /\ pc' = "done"
    /\ UNCHANGED <<p, r, candidates, extraValidRules, checked, idx,
                   parsed, validated, log, fn>>

----------------------------------------------------------------------------
(* Configurations and requests *)

\* most carriers of one request that hold a value
MaxCarried == 2

NoMeta == [x \in {} |-> <<>>]

Sources ==
    {[FromQuery |-> q, FromHeader |-> h, FromCookies |-> c] :
        q \in {<<>>, <<qToken>>, <<qToken, qT2>>, <<qT2, qToken>>},
        h \in {<<>>, <<hXToken>>},
        c \in {<<>>, <<cAuth>>}}

Policies ==
    {[UserClaims |-> <<sub>>, MetaClaims |-> NoMeta,
      AllowAudiences |-> <<>>, AllowIssuers |-> <<>>, AllowUsers |-> <<>>],
     [UserClaims |-> <<sub>>, MetaClaims |-> (iss :> issuer),
      AllowAudiences |-> <<>>, AllowIssuers |-> <<>>,
      AllowUsers |-> <<user1>>],
     [UserClaims |-> <<sub>>, MetaClaims |-> NoMeta,
      AllowAudiences |-> <<aud2>>, AllowIssuers |-> <<>>,
      AllowUsers |-> <<>>],
     [UserClaims |-> <<sub>>, MetaClaims |-> (iss :> issuer),
      AllowAudiences |-> <<>>, AllowIssuers |-> <<iss2>>,
      AllowUsers |-> <<>>],
     [UserClaims |-> <<uid, sub>>, MetaClaims |-> NoMeta,
      AllowAudiences |-> <<>>, AllowIssuers |-> <<>>,
      AllowUsers |-> <<<<"4","2">>, user3>>],
     [UserClaims |-> <<sub>>, MetaClaims |-> NoMeta,
      AllowAudiences |-> <<aud2, aud1>>, AllowIssuers |-> <<iss1>>,
      AllowUsers |-> <<user2, user1>>]}

Configs == {s @@ q : s \in Sources, q \in Policies}

\* the values a carrier of a request may hold
RawValues ==
    {tokV1, tokV2, tokEx, tokNu,
     <<"B","e","a","r","e","r"," ">> \o tokV1,
     <<"B","e","a","r","e","r"," ">>}

QueryNames  == {qToken, qT2}
HeaderNames == {hXToken, hAuthorization}
CookieNames == {cAuth}

Carriers ==
    {<<"query", n>> : n \in QueryNames}
      \cup {<<"header", n>> : n \in HeaderNames}
      \cup {<<"cookies", n>> : n \in CookieNames}

Request(f) ==
    [query   |-> [n \in {m \in QueryNames : <<"query", m>> \in DOMAIN f}
                    |-> f[<<"query", n>>]],
     header  |-> [n \in {m \in HeaderNames : <<"header", m>> \in DOMAIN f}
                    |-> f[<<"header", n>>]],
     cookies |-> [n \in {m \in CookieNames : <<"cookies", m>> \in DOMAIN f}
                    |-> f[<<"cookies", n>>]]]

Requests ==
    {Request(f) : f \in UNION {[C -> RawValues] :
                       C \in {D \in SUBSET Carriers :
                                Cardinality(D) <= MaxCarried}}}

NoCall == [op |-> "none"]

Init ==
    /\ p \in Configs
    /\ r \in Requests
    /\ pc = "start"
    /\ candidates = <<>>
    /\ extraValidRules = <<>>
    /\ checked = {}
    /\ idx = 1
    /\ ret = [user |-> EmptyUser, authenticated |-> FALSE, err |-> "nil"]
    /\ parsed = <<>>
    /\ validated = <<>>
    /\ log = <<>>
    /\ fn = NoCall

Next ==
    \/ Collect
    \/ SkipDuplicate
    \/ ParseFail
    \/ ValidateFail
    \/ NoUserID
    \/ UserNotAllowed
    \/ Accept
    \/ Exhausted

Spec == Init /\ [][Next]_vars

----------------------------------------------------------------------------
(* Properties of Authenticate *)

Done == pc = "done"

\* what the configuration asks of one normalized token string
IdentityOf(tok) == getUserID(ParseToken(tok).token.claims, p.UserClaims).id

Acceptable(tok) ==
    /\ ~ParseToken(tok).err
    /\ TokenValidate(ParseToken(tok).token, ExtraValidRules)
    /\ IdentityOf(tok) # <<>>
    /\ (Len(p.AllowUsers) > 0 => IdentityOf(tok) \in Range(p.AllowUsers))

\* the carriers of a request in the documented priority:
\* from_query > from_header > from_cookies > Authorization
CarrierOrder ==
    [i \in 1..Len(p.FromQuery) |-> <<"query", p.FromQuery[i]>>]
      \o [i \in 1..Len(p.FromHeader) |-> <<"header", p.FromHeader[i]>>]
      \o [i \in 1..Len(p.FromCookies) |-> <<"cookies", p.FromCookies[i]>>]
      \o << <<"header", hAuthorization>> >>

ValueAt(c) == Get(r[c[1]], c[2])

GoodCarriers ==
    {i \in 1..Len(CarrierOrder) :
        /\ ValueAt(CarrierOrder[i]) # <<>>
        /\ Acceptable(normToken(ValueAt(CarrierOrder[i])))}

FirstOf(S) == CHOOSE i \in S : \A j \in S : i <= j

\* C1: when Authenticate has returned, the request is authenticated exactly
\* when some carrier, taken in the order from_query names, from_header
\* names, from_cookies names, Authorization header, holds an acceptable
\* token, and the identity and metadata returned are those of the first
\* such carrier, also when later carriers hold acceptable tokens too.
C1_FirstAcceptableCarrierWins ==
    Done =>
      IF GoodCarriers = {} THEN ~ret.authenticated
      ELSE LET tok == normToken(ValueAt(CarrierOrder[FirstOf(GoodCarriers)]))
           IN  /\ ret.authenticated
               /\ ret.user.ID = IdentityOf(tok)
               /\ ret.user.Metadata \in
                    getUserMetadata(ParseToken(tok).token.claims,
                                    p.MetaClaims)

\* two carriers of different sources hold acceptable tokens of different
\* users, and the call has returned
C1_Witness ==
    /\ Done
    /\ ret.authenticated
    /\ \E i, j \in GoodCarriers :
          /\ i < j
          /\ CarrierOrder[i][1] # CarrierOrder[j][1]
          /\ IdentityOf(normToken(ValueAt(CarrierOrder[i])))
               # IdentityOf(normToken(ValueAt(CarrierOrder[j])))

NormAt(i) == normToken(candidates[i])

GoodCandidates == {i \in 1..Len(candidates) : Acceptable(NormAt(i))}

IsWarn(rec) == rec.level = "WARN"

\* C2: a step that skips a candidate (it logs a warning: parse error,
\* validation error, empty user claim, user not allowed) never ends the
\* request: the loop moves on to the next candidate and nothing is
\* returned; and a returned request whose candidates hold an acceptable
\* token after failing ones is authenticated with the identity of the first
\* acceptable candidate.
C2_FailureNeverEndsRequest ==
    /\ [](Done /\ GoodCandidates # {}
            => /\ ret.authenticated
               /\ ret.user.ID = IdentityOf(NormAt(FirstOf(GoodCandidates))))
    /\ [][(Len(log') = Len(log) + 1 /\ IsWarn(log'[Len(log')]))
            => (pc' = "loop" /\ idx' = idx + 1 /\ ret' = ret)]_vars

\* a candidate was refused because its user is not allowed, and a later
\* candidate authenticated the request
C2_Witness ==
    /\ Done
    /\ ret.authenticated
    /\ Len(log) >= 2
    /\ log[1].msg = "user is not allowed"
    /\ log[Len(log)].i > log[1].i

InfoRecords == {k \in 1..Len(log) : log[k].level = "INFO"}

\* C3: at most one candidate is accepted, and the acceptance is the last
\* thing Authenticate does: once the info record of an accepted candidate
\* is logged the call has returned authenticated, that record is the last
\* one, and no candidate after the accepted one has been parsed, validated
\* or logged.
C3_AcceptReturnsImmediately ==
    /\ Cardinality(InfoRecords) <= 1
    /\ \A k \in InfoRecords :
          /\ Done
          /\ ret.authenticated
          /\ k = Len(log)
          /\ \A n \in 1..Len(parsed) : parsed[n].i <= log[k].i
          /\ \A n \in 1..Len(validated) : validated[n].i <= log[k].i
          /\ \A n \in 1..Len(log) : log[n].i <= log[k].i

\* a candidate was accepted while a different token, not yet checked,
\* follows it in the candidate list
C3_Witness ==
    /\ Done
    /\ ret.authenticated
    /\ \E j \in 1..Len(candidates) :
          /\ j > log[Len(log)].i
          /\ NormAt(j) \notin checked

\* C4: within one call no normalized token is parsed twice, validated
\* twice or logged twice, whatever carriers its occurrences came from and
\* whether its first occurrence failed or not.
C4_EachTokenCheckedOnce ==
    /\ \A a, b \in 1..Len(parsed) :
          a # b => parsed[a].tokenStr # parsed[b].tokenStr
    /\ \A a, b \in 1..Len(validated) :
          a # b => validated[a].tokenStr # validated[b].tokenStr
    /\ \A a, b \in 1..Len(log) :
          a # b => NormAt(log[a].i) # NormAt(log[b].i)

\* two candidates that differ as raw strings and agree once normalized,
\* the first of which failed, and the loop has passed the second
C4_Witness ==
    /\ Done
    /\ ~ret.authenticated
    /\ \E i, j \in 1..Len(candidates) :
          /\ i < j
          /\ candidates[i] # candidates[j]
          /\ NormAt(i) = NormAt(j)
          /\ \E k \in 1..Len(log) : log[k].i = i /\ IsWarn(log[k])

\* C5: Authenticate never returns an error, and when no candidate is
\* accepted it returns authenticated = false with the empty user (empty ID,
\* nil metadata).
C5_NilErrorEmptyUser ==
    /\ ret.err = "nil"
    /\ (Done /\ ~ret.authenticated) => ret.user = EmptyUser
    /\ (Done /\ InfoRecords = {}) => ~ret.authenticated

\* every candidate of the request failed and the call has returned
C5_Witness ==
    /\ Done
    /\ ~ret.authenticated
    /\ Len(log) >= 2
    /\ \E k \in 1..Len(log) : log[k].msg = "parse error"

\* the claims of the candidate a log record is about
ClaimsAt(i) == ParseToken(NormAt(i)).token.claims

\* a candidate that parses, validates and resolves to a non-empty identity
ValidWithIdentity(tok) ==
    /\ ~ParseToken(tok).err
    /\ TokenValidate(ParseToken(tok).token, ExtraValidRules)
    /\ IdentityOf(tok) # <<>>

\* C6: with a non-empty allow_users every authenticated identity is a
\* member of the list, and no candidate resolving to an identity outside
\* the list is accepted; with an empty allow_users any candidate that
\* parses, validates and has an identity authenticates the request.
C6_AllowUsersEnforced ==
    /\ (Done /\ ret.authenticated /\ Len(p.AllowUsers) > 0)
          => ret.user.ID \in Range(p.AllowUsers)
    /\ \A k \in InfoRecords :
          Len(p.AllowUsers) > 0
            => IdentityOf(NormAt(log[k].i)) \in Range(p.AllowUsers)
    /\ (Done /\ Len(p.AllowUsers) = 0
          /\ \E i \in 1..Len(candidates) : ValidWithIdentity(NormAt(i)))
          => ret.authenticated

\* a candidate that parsed and validated was refused because its identity
\* is not in allow_users
C6_Witness ==
    /\ Done
    /\ Len(p.AllowUsers) > 0
    /\ \E k \in 1..Len(log) :
          /\ log[k].msg = "user is not allowed"
          /\ ValidWithIdentity(NormAt(log[k].i))
          /\ log[k].user_id \notin Range(p.AllowUsers)

\* C7: every authenticated result has a non-empty user ID, and a validated
\* token whose claims give no non-empty identity through user_claims is
\* never accepted.
C7_UserIDNonEmpty ==
    /\ (Done /\ ret.authenticated) => ret.user.ID # <<>>
    /\ \A k \in InfoRecords :
          getUserID(ClaimsAt(log[k].i), p.UserClaims).id # <<>>

\* a validated token without identity was skipped and the call returned
C7_Witness ==
    /\ Done
    /\ \E k \in 1..Len(log) :
          /\ log[k].msg = "user claim is empty"
          /\ \E n \in 1..Len(validated) : validated[n].i = log[k].i

HasRule(rules, claim, allowed) ==
    \E i \in 1..Len(rules) :
       rules[i].claim = claim /\ rules[i].allowed = allowed

HasRuleFor(rules, claim) == \E i \in 1..Len(rules) : rules[i].claim = claim

PresentNotIn(claims, claim, allowed) ==
    /\ claim \in DOMAIN claims
    /\ ~(claims[claim].kind = "string" /\ Contains(allowed, claims[claim].s))

\* C8: every call of the validator gets an audience rule exactly when
\* allow_audiences is non-empty (with that list) and an issuer rule exactly
\* when allow_issuers is non-empty (with that list); and no accepted token
\* has an aud (iss) claim that is present and not in a non-empty
\* allow_audiences (allow_issuers).
C8_RulesFollowAllowLists ==
    /\ \A n \in 1..Len(validated) :
          /\ HasRuleFor(validated[n].rules, aud) <=> Len(p.AllowAudiences) > 0
          /\ HasRuleFor(validated[n].rules, iss) <=> Len(p.AllowIssuers) > 0
          /\ Len(p.AllowAudiences) > 0
               => HasRule(validated[n].rules, aud, p.AllowAudiences)
          /\ Len(p.AllowIssuers) > 0
               => HasRule(validated[n].rules, iss, p.AllowIssuers)
    /\ \A k \in InfoRecords :
          /\ Len(p.AllowAudiences) > 0
               => ~PresentNotIn(ClaimsAt(log[k].i), aud, p.AllowAudiences)
          /\ Len(p.AllowIssuers) > 0
               => ~PresentNotIn(ClaimsAt(log[k].i), iss, p.AllowIssuers)

\* a token within its time bounds whose aud claim is present and not in
\* allow_audiences was validated, with the audience rule, and refused
C8_Witness ==
    /\ Done
    /\ ~ret.authenticated
    /\ Len(p.AllowAudiences) > 0
    /\ \E n \in 1..Len(validated) :
          /\ ParseToken(validated[n].tokenStr).token.timeOK
          /\ HasRule(validated[n].rules, aud, p.AllowAudiences)
          /\ PresentNotIn(ParseToken(validated[n].tokenStr).token.claims,
                          aud, p.AllowAudiences)

HasClaimIn(claims, claim, allowed) ==
    /\ claim \in DOMAIN claims
    /\ claims[claim].kind = "string"
    /\ claims[claim].s \in Range(allowed)

\* a candidate that is acceptable as far as everything but the aud and iss
\* claims goes
AcceptableBesidesRules(tok) ==
    /\ ~ParseToken(tok).err
    /\ ParseToken(tok).token.timeOK
    /\ IdentityOf(tok) # <<>>
    /\ (Len(p.AllowUsers) > 0 => IdentityOf(tok) \in Range(p.AllowUsers))

----------------------------------------------------------------------------
(* getUserID on its own: the claims and the user_claims list are drawn     *)
(* from bounded sets and the function is applied once.                     *)

username == <<"u","s","e","r","n","a","m","e">>
eva      == <<"e","v","a">>

\* longest user_claims list handed to getUserID
MaxUserClaims == 2

SeqsUpTo(S, n) == UNION {[1..k -> S] : k \in 0..n}

IdentityValues ==
    {StrVal(<<>>), StrVal(eva), NumVal(7), NumVal(0), BoolVal(TRUE),
     NullVal, SliceVal(<<StrVal(eva)>>), MapVal(sub :> StrVal(eva))}

IdentityClaims ==
    UNION {[D -> IdentityValues] : D \in SUBSET {uid, username}}

\* a configuration and a request that stay untouched while a function is
\* checked on its own
IdleConfig ==
    [FromQuery |-> <<>>, FromHeader |-> <<>>, FromCookies |-> <<>>,
     UserClaims |-> <<sub>>, MetaClaims |-> NoMeta,
     AllowAudiences |-> <<>>, AllowIssuers |-> <<>>, AllowUsers |-> <<>>]

IdleRequest == Request(<<>>)

IdleAuth ==
    /\ p = IdleConfig
    /\ r = IdleRequest
    /\ pc = "idle"
    /\ candidates = <<>>
    /\ extraValidRules = <<>>
    /\ checked = {}
    /\ idx = 1
    /\ ret = [user |-> EmptyUser, authenticated |-> FALSE, err |-> "nil"]
    /\ parsed = <<>>
    /\ validated = <<>>
    /\ log = <<>>

InitUserID ==
    /\ IdleAuth
    /\ fn \in {[op |-> "getUserID", claims |-> c, names |-> n,
                done |-> FALSE, out |-> [name |-> <<>>, id |-> <<>>]] :
                 c \in IdentityClaims,
                 n \in SeqsUpTo({uid, username}, MaxUserClaims)}

\* claimName, userID := getUserID(claims, names)
CallGetUserID ==
    /\ fn.op = "getUserID"
    /\ ~fn.done
    /\ fn' = [fn EXCEPT !.done = TRUE,
                        !.out = getUserID(fn.claims, fn.names)]
    /\ UNCHANGED authVars

NextUserID == CallGetUserID

SpecUserID == InitUserID /\ [][NextUserID]_vars

\* a claim value that qualifies as an identity: a non-empty string or a
\* number
Qualifies(v) == (v.kind = "string" /\ v.s # <<>>) \/ v.kind = "float64"

QualifyingNames(claims, names) ==
    {i \in 1..Len(names) :
        names[i] \in DOMAIN claims /\ Qualifies(claims[names[i]])}

\* C10: getUserID returns the first name of user_claims whose claim is
\* present with a non-empty string or a number as value, with that value;
\* names whose claim is absent, an empty string, or of another kind are
\* passed over; when no name qualifies it returns no identity.
C10_FirstQualifyingClaim ==
    (fn.op = "getUserID" /\ fn.done) =>
      LET q == QualifyingNames(fn.claims, fn.names)
      IN  IF q = {} THEN fn.out.id = <<>>
          ELSE /\ fn.out.name = fn.names[FirstOf(q)]
               /\ fn.out.id = stringify(fn.claims[fn.names[FirstOf(q)]])

----------------------------------------------------------------------------
(* getUserMetadata on its own: nested claim sets and meta_claims mappings *)

user_info     == <<"u","s","e","r","_","i","n","f","o">>
role          == <<"r","o","l","e">>
admin         == <<"a","d","m","i","n">>
userInfoRole  == <<"u","s","e","r","_","i","n","f","o",".","r","o","l","e">>
userInfoRoleSub ==
    <<"u","s","e","r","_","i","n","f","o",".","r","o","l","e",".","s","u","b">>
missingRole   == <<"r","o","l","e",".","s","u","b">>

\* the values a claim of the payload takes: scalars, a sequence, a mapping
\* with a leaf, a mapping with a mapping
MetaValues ==
    {StrVal(admin), NumVal(1), BoolVal(TRUE), NullVal,
     SliceVal(<<StrVal(admin), NumVal(1)>>),
     MapVal(role :> StrVal(admin)),
     MapVal(role :> NumVal(1)),
     MapVal(role :> MapVal(sub :> StrVal(admin))),
     MapVal(role :> MapVal(role :> StrVal(eva)))}

MetaPayloads ==
    UNION {[D -> MetaValues] : D \in SUBSET {user_info, role, userInfoRole}}

\* meta_claims mappings (claim name -> placeholder)
MetaMappings ==
    {NoMeta,
     (userInfoRole :> role),
     (role :> role),
     (userInfoRoleSub :> sub),
     (userInfoRole :> role) @@ (user_info :> uid),
     (missingRole :> role) @@ (userInfoRoleSub :> sub),
     (role :> uid) @@ (userInfoRole :> uid)}

InitMetadata ==
    /\ IdleAuth
    /\ fn \in {[op |-> "getUserMetadata", claims |-> c, placeholdersMap |-> m,
                done |-> FALSE, out |-> NilMetadata] :
                 c \in MetaPayloads, m \in MetaMappings}

\* Metadata: getUserMetadata(token.ClaimsRaw(), p.MetaClaims)
CallGetUserMetadata ==
    /\ fn.op = "getUserMetadata"
    /\ ~fn.done
    /\ \E md \in getUserMetadata(fn.claims, fn.placeholdersMap) :
          fn' = [fn EXCEPT !.done = TRUE, !.out = md]
    /\ UNCHANGED authVars

NextMetadata == CallGetUserMetadata

SpecMetadata == InitMetadata /\ [][NextMetadata]_vars

HasDot(name) == \E i \in 1..Len(name) : name[i] = "."

RECURSIVE LeafOf(_, _)
\* the documented resolution of a dotted path: every segment but the last
\* names a nested mapping, the last one names a value of the innermost one
LeafOf(object, path) ==
    IF Len(path) = 1
    THEN IF path[1] \in DOMAIN object
         THEN [found |-> TRUE, val |-> object[path[1]]]
         ELSE [found |-> FALSE, val |-> NullVal]
    ELSE IF path[1] \in DOMAIN object /\ object[path[1]].kind = "map"
         THEN LeafOf(object[path[1]].m, Tail(path))
         ELSE [found |-> FALSE, val |-> NullVal]

\* the claims of the mapping that write placeholder ph
WritersOf(m, ph) == {c \in DOMAIN m : m[c] = ph}

MetaDone == fn.op = "getUserMetadata" /\ fn.done

\* C11: a meta-claim whose key is a dotted path that is no exact key of the
\* payload, whose segments but the last name nested mappings and whose last
\* segment names a value of the innermost mapping, puts the stringified leaf
\* in its placeholder ({user_info: {role: admin}} with user_info.role -> role
\* gives {role: admin}).
C11_NestedLeafReachesPlaceholder ==
    MetaDone =>
      \A c \in DOMAIN fn.placeholdersMap :
        LET leaf == LeafOf(fn.claims, Split(c, "."))
        IN  (/\ c \notin DOMAIN fn.claims
             /\ HasDot(c)
             /\ leaf.found
             /\ WritersOf(fn.placeholdersMap, fn.placeholdersMap[c]) = {c})
            => /\ ~fn.out.isNil
               /\ fn.out.kv[fn.placeholdersMap[c]] = stringify(leaf.val)

\* what the lookup of one meta-claim is to give: the exact key first, then
\* the dotted path, else nothing
Looked(claims, c) ==
    IF c \in DOMAIN claims THEN stringify(claims[c])
    ELSE IF HasDot(c) /\ LeafOf(claims, Split(c, ".")).found
         THEN stringify(LeafOf(claims, Split(c, ".")).val)
         ELSE <<>>

\* C12: with a non-empty meta_claims mapping every configured placeholder is
\* a key of the metadata; it holds the stringified claim when the exact key
\* or the dotted path is found and the empty string otherwise.
C12_EveryPlaceholderFilled ==
    (MetaDone /\ DOMAIN fn.placeholdersMap # {}) =>
      /\ ~fn.out.isNil
      /\ DOMAIN fn.out.kv =
           {fn.placeholdersMap[c] : c \in DOMAIN fn.placeholdersMap}
      /\ \A c \in DOMAIN fn.placeholdersMap :
           WritersOf(fn.placeholdersMap, fn.placeholdersMap[c]) = {c}
             => fn.out.kv[fn.placeholdersMap[c]] = Looked(fn.claims, c)

----------------------------------------------------------------------------
(* normToken on its own: carrier values built from pieces *)

\* longest token, counted in pieces
MaxPieces == 2

TokenPieces ==
    {<<"x">>, <<".">>, <<" ">>, <<"\t">>,
     bearer,
     <<"B","e","a","r","e","r"," ">>,
     <<"B","E","A","R","E","R"," ">>}

RECURSIVE Concat(_)
Concat(seqs) == IF seqs = <<>> THEN <<>> ELSE Head(seqs) \o Concat(Tail(seqs))

TokenStrings == {Concat(ps) : ps \in SeqsUpTo(TokenPieces, MaxPieces)}

\* the ways a carrier spells the scheme in front of the token; the empty one
\* is the plain token
BearerPrefixes ==
    {<<>>,
     bearer,
     <<"B","e","a","r","e","r"," ">>,
     <<"B","E","A","R","E","R"," ">>,
     <<"b","E","a","R","e","R"," ">>}

InitNorm ==
    /\ IdleAuth
    /\ fn \in {[op |-> "normToken", token |-> pre \o tok,
                prefix |-> pre, tok |-> tok,
                done |-> FALSE, out |-> <<>>] :
                 pre \in BearerPrefixes, tok \in TokenStrings}

\* tokenStr := normToken(candidateToken)
CallNormToken ==
    /\ fn.op = "normToken"
    /\ ~fn.done
    /\ fn' = [fn EXCEPT !.done = TRUE, !.out = normToken(fn.token)]
    /\ UNCHANGED authVars

NextNorm == CallNormToken

SpecNorm == InitNorm /\ [][NextNorm]_vars

NormDone == fn.op = "normToken" /\ fn.done

Trimmed(s) == TrimSpace(s) = s

StartsWithBearer(s) == HasPrefix(ToLower(s), bearer)

\* C13 as stated: for every token string tok without surrounding white
\* space, "Bearer tok" in any letter case of the prefix and plain tok all
\* normalize to tok.
C13_BearerAndPlainNormalizeToTok ==
    (NormDone /\ Trimmed(fn.tok)) => fn.out = fn.tok

\* C13 amended: for every token string tok without surrounding white
\* space, "Bearer tok" in any letter case of the prefix normalizes to tok,
\* and so does plain tok unless tok itself starts, in any letter case, with
\* "bearer "; such a plain tok loses that one prefix.
C13_BearerNormalization ==
    (NormDone /\ Trimmed(fn.tok)) =>
      IF fn.prefix = <<>> /\ StartsWithBearer(fn.tok)
      THEN fn.out = TrimSpace(SubSeq(fn.tok, Len(bearer) + 1, Len(fn.tok)))
      ELSE fn.out = fn.tok

C13_Witness ==
    /\ NormDone
    /\ fn.prefix = <<"B","E","A","R","E","R"," ">>
    /\ fn.tok = <<"x", ".">>
    /\ fn.out = fn.tok

----------------------------------------------------------------------------
(* Validate: the configuration as provisioned, before it serves requests *)

Version2 == <<"v","2">>
Version3 == <<"v","3">>
Version4 == <<"v","4">>
version5 == <<"v","5">>
Local    == <<"l","o","c","a","l">>
Public   == <<"p","u","b","l","i","c">>
invalid  == <<"i","n","v","a","l","i","d">>

\* 30 * time.Second, with durations counted in seconds
DefaultTolerance == 30

\* key strings: the hex export of a v4 public key, of a v4 symmetric key, a
\* string that is no hex, and the unset key
pubKeyHex  == <<"a","1","b","2">>
symKeyHex  == <<"c","3","d","4">>
invalidKey == <<"i","n","v","a","l","i","d","-","k","e","y">>

NilErr == [isNil |-> TRUE, msg |-> <<>>]
Err(msg) == [isNil |-> FALSE, msg |-> msg]
NilKey == [isNil |-> TRUE]

\* fmt.Errorf("invalid version: '%s'", p.Version)
InvalidVersionErr(v) ==
    Err(<<"i","n","v","a","l","i","d"," ","v","e","r","s","i","o","n",":",
          " ","'">> \o v \o <<"'">>)

\* fmt.Errorf("invalid purpose: '%s'", p.Purpose)
InvalidPurposeErr(pu) ==
    Err(<<"i","n","v","a","l","i","d"," ","p","u","r","p","o","s","e",":",
          " ","'">> \o pu \o <<"'">>)

\* xpaseto.LoadKey(key, version, purpose, KeyTypePublic): the key decoded
\* for the protocol, or the error of the decoding
LoadKey(keyData, version, purpose) ==
    CASE keyData = <<>> ->
           [key |-> NilKey,
            err |-> Err(<<"k","e","y"," ","l","e","n","g","t","h"," ",
                          "i","n","c","o","r","r","e","c","t">>)]
      [] keyData = invalidKey ->
           [key |-> NilKey,
            err |-> Err(<<"e","n","c","o","d","i","n","g","/","h","e","x",
                          ":"," ","i","n","v","a","l","i","d"," ","b","y",
                          "t","e">>)]
      [] keyData = pubKeyHex /\ purpose = Public /\ version # Version3 ->
           [key |-> [isNil |-> FALSE, data |-> keyData,
                     version |-> version, purpose |-> purpose],
            err |-> NilErr]
      [] keyData = symKeyHex /\ purpose = Local ->
           [key |-> [isNil |-> FALSE, data |-> keyData,
                     version |-> version, purpose |-> purpose],
            err |-> NilErr]
      [] OTHER ->
           [key |-> NilKey,
            err |-> Err(<<"k","e","y"," ","l","e","n","g","t","h"," ",
                          "i","n","c","o","r","r","e","c","t">>)]

VersionValid(v) == Contains(<<Version2, Version3, Version4>>, v)

\* a purpose check that lets every purpose through
PurposeValid_Any(pu) == TRUE

PurposeValid(pu) == Contains(<<Local, Public>>, pu)

DefaultVersion(cfg) ==
    IF cfg.Version = <<>> THEN [cfg EXCEPT !.Version = Version4] ELSE cfg

DefaultPurpose(cfg) ==
    IF cfg.Purpose = <<>> THEN [cfg EXCEPT !.Purpose = Public] ELSE cfg

DefaultTimeSkewTolerance(cfg) ==
    IF cfg.TimeSkewTolerance = 0
    THEN [cfg EXCEPT !.TimeSkewTolerance = DefaultTolerance] ELSE cfg

\* a default that overwrites the list the operator configured
DefaultUserClaims_Always(cfg) == [cfg EXCEPT !.UserClaims = <<sub>>]

DefaultUserClaims(cfg) ==
    IF Len(cfg.UserClaims) = 0
    THEN [cfg EXCEPT !.UserClaims = <<sub>>] ELSE cfg

\* the configuration Validate leaves behind and the error it returns
ValidateOutcome(cfg) ==
    IF cfg.Version # <<>> /\ ~VersionValid(cfg.Version)
    THEN [p |-> cfg, err |-> InvalidVersionErr(cfg.Version)]
    ELSE LET c1 == DefaultVersion(cfg)
         IN  IF c1.Purpose # <<>> /\ ~PurposeValid(c1.Purpose)
             THEN [p |-> c1, err |-> InvalidPurposeErr(c1.Purpose)]
             ELSE LET c2 == DefaultPurpose(c1)
                      c3 == DefaultTimeSkewTolerance(c2)
                      c4 == DefaultUserClaims(c3)
                      k  == LoadKey(c4.Key, c4.Version, c4.Purpose)
                  IN  [p |-> [c4 EXCEPT !.key = k.key], err |-> k.err]

\* the fields the operator can set, set or left unset
Provisioned ==
    [Key : {<<>>, invalidKey, pubKeyHex, symKeyHex},
     Version : {<<>>, Version2, Version3, Version4, version5},
     Purpose : {<<>>, Local, Public, invalid},
     TimeSkewTolerance : {0, 5, DefaultTolerance},
     UserClaims : {<<>>, <<sub>>, <<uid, sub>>},
     key : {NilKey}]

InitValidate ==
    /\ p \in {c @@ IdleConfig : c \in Provisioned}
    /\ r = IdleRequest
    /\ pc = "idle"
    /\ candidates = <<>>
    /\ extraValidRules = <<>>
    /\ checked = {}
    /\ idx = 1
    /\ ret = [user |-> EmptyUser, authenticated |-> FALSE, err |-> "nil"]
    /\ parsed = <<>>
    /\ validated = <<>>
    /\ log = <<>>
    /\ fn = [op |-> "Validate", before |-> p, done |-> FALSE, err |-> NilErr]

\* func (p *PasetoAuth) Validate() error
Validate ==
    /\ fn.op = "Validate"
    /\ ~fn.done
    /\ p' = ValidateOutcome(p).p
    /\ fn' = [fn EXCEPT !.done = TRUE, !.err = ValidateOutcome(p).err]
    /\ UNCHANGED <<r, pc, candidates, extraValidRules, checked, idx, ret,
                   parsed, validated, log>>

NextValidate == Validate

SpecValidate == InitValidate /\ [][NextValidate]_vars

Validated == fn.op = "Validate" /\ fn.done

\* the field of the configuration is what the operator set, or the default
\* when the operator left it unset
KeptOrDefault(before, after, unset, default) ==
    IF before = unset THEN after \in {unset, default} ELSE after = before

\* C14: Validate leaves every set field as it is and writes only defaults
\* into unset ones; when it succeeds, an empty version has become v4, an
\* empty purpose public, a zero time_skew_tolerance 30s, an empty
\* user_claims ["sub"], and the parsed key is set.
C14_DefaultsApplied ==
    Validated =>
      /\ KeptOrDefault(fn.before.Version, p.Version, <<>>, Version4)
      /\ KeptOrDefault(fn.before.Purpose, p.Purpose, <<>>, Public)
      /\ KeptOrDefault(fn.before.TimeSkewTolerance, p.TimeSkewTolerance,
                       0, DefaultTolerance)
      /\ KeptOrDefault(fn.before.UserClaims, p.UserClaims, <<>>, <<sub>>)
      /\ p.Key = fn.before.Key
      /\ fn.err.isNil =>
           /\ p.Version # <<>>
           /\ p.Purpose # <<>>
           /\ p.TimeSkewTolerance # 0
           /\ p.UserClaims # <<>>
           /\ ~p.key.isNil

C14_Witness ==
    /\ Validated
    /\ fn.err.isNil
    /\ fn.before.Version = <<>> /\ p.Version = Version4
    /\ fn.before.Purpose = <<>> /\ p.Purpose = Public
    /\ fn.before.TimeSkewTolerance = 0 /\ p.TimeSkewTolerance = 30
    /\ fn.before.UserClaims = <<>> /\ p.UserClaims = <<sub>>
    /\ ~p.key.isNil

\* strings.Contains
HasSubstr(s, sub_) ==
    \E i \in 0..(Len(s) - Len(sub_)) : SubSeq(s, i + 1, i + Len(sub_)) = sub_

invalidVersionText == <<"i","n","v","a","l","i","d"," ","v","e","r","s","i","o","n">>
invalidPurposeText == <<"i","n","v","a","l","i","d"," ","p","u","r","p","o","s","e">>

VersionRejected(v) == v # <<>> /\ v \notin {Version2, Version3, Version4}
PurposeRejected(pu) == pu # <<>> /\ pu \notin {Local, Public}

\* the part of C15 that does not depend on which check runs first
ValidateSound ==
    /\ fn.err.isNil =>
         /\ p.Version \in {Version2, Version3, Version4}
         /\ p.Purpose \in {Local, Public}
         /\ LoadKey(p.Key, p.Version, p.Purpose).err.isNil
         /\ p.key = LoadKey(p.Key, p.Version, p.Purpose).key
         /\ ~p.key.isNil
    /\ VersionRejected(fn.before.Version) =>
         /\ ~fn.err.isNil
         /\ HasSubstr(fn.err.msg, invalidVersionText)
         /\ HasSubstr(fn.err.msg, fn.before.Version)
         /\ p.key.isNil
    /\ (/\ ~VersionRejected(fn.before.Version)
        /\ ~PurposeRejected(fn.before.Purpose)
        /\ ~LoadKey(p.Key, p.Version, p.Purpose).err.isNil) =>
         fn.err = LoadKey(p.Key, p.Version, p.Purpose).err

\* C15 as stated: Validate returns nil only with a version of {v2, v3, v4},
\* a purpose of {local, public} and a key that loads; any other non-empty
\* version fails with 'invalid version', any other non-empty purpose fails
\* with 'invalid purpose', a key-loading failure is returned as the error,
\* and no key is installed in the version and purpose error cases.
C15_EveryBadPurposeReported ==
    Validated =>
      /\ ValidateSound
      /\ PurposeRejected(fn.before.Purpose) =>
           /\ ~fn.err.isNil
           /\ HasSubstr(fn.err.msg, invalidPurposeText)
           /\ p.key.isNil

\* C15 amended: as above, but the version is checked first: any other
\* non-empty purpose fails with 'invalid purpose' when the version is unset
\* or one of {v2, v3, v4}; with a rejected version the error is 'invalid
\* version' whatever the purpose.
C15_ValidateErrors ==
    Validated =>
      /\ ValidateSound
      /\ PurposeRejected(fn.before.Purpose) =>
           /\ ~fn.err.isNil
           /\ p.key.isNil
           /\ IF VersionRejected(fn.before.Version)
              THEN fn.err = InvalidVersionErr(fn.before.Version)
              ELSE /\ HasSubstr(fn.err.msg, invalidPurposeText)
                   /\ HasSubstr(fn.err.msg, fn.before.Purpose)

C15_Witness ==
    /\ Validated
    /\ fn.before.Version = version5
    /\ fn.before.Purpose = invalid
    /\ HasSubstr(fn.err.msg, invalidVersionText)
    /\ ~HasSubstr(fn.err.msg, invalidPurposeText)
    /\ p.key.isNil

----------------------------------------------------------------------------
(* parseMetaClaim on its own: keys built from pieces *)

arrow == <<"-",">">>

RECURSIVE SplitOn(_, _)
\* strings.Split(s, sep) with a separator of several characters
SplitOn(s, sep) ==
    LET hits == {i \in 1..(Len(s) - Len(sep) + 1) :
                    SubSeq(s, i, i + Len(sep) - 1) = sep}
    IN  IF hits = {} THEN <<s>>
        ELSE LET k == CHOOSE i \in hits : \A j \in hits : i <= j
             IN  <<SubSeq(s, 1, k - 1)>>
                   \o SplitOn(SubSeq(s, k + Len(sep), Len(s)), sep)

\* one character as the verb %q writes it (strconv.Quote)
QuoteChar(c) ==
    CASE c = "\"" -> <<"\\", "\"">>
      [] c = "\\" -> <<"\\", "\\">>
      [] c = "\t" -> <<"\\", "t">>
      [] c = "\n" -> <<"\\", "n">>
      [] c = "\r" -> <<"\\", "r">>
      [] OTHER    -> <<c>>

\* the verb %q: the string in double quotes, with Go escapes
Quote(s) ==
    <<"\"">> \o Concat([i \in 1..Len(s) |-> QuoteChar(s[i])]) \o <<"\"">>

\* fmt.Errorf("too many delimiters (->) in key %q", key)
TooManyDelimitersErr(key) ==
    Err(<<"t","o","o"," ","m","a","n","y"," ","d","e","l","i","m","i","t",
          "e","r","s"," ","(","-",">",")"," ","i","n"," ","k","e","y",
          " ">> \o Quote(key))

\* fmt.Errorf("empty claim in key %q", key)
EmptyClaimErr(key) ==
    Err(<<"e","m","p","t","y"," ","c","l","a","i","m"," ","i","n"," ","k",
          "e","y"," ">> \o Quote(key))

\* fmt.Errorf("empty placeholder in key %q", key)
EmptyPlaceholderErr(key) ==
    Err(<<"e","m","p","t","y"," ","p","l","a","c","e","h","o","l","d","e",
          "r"," ","i","n"," ","k","e","y"," ">> \o Quote(key))

ParseFailed(err) == [claim |-> <<>>, placeholder |-> <<>>, err |-> err]

\* a parseMetaClaim that does not look at the placeholder it found
parseMetaClaim_NoPlaceholderCheck(key) ==
    LET parts == SplitOn(key, arrow)
    IN  IF Len(parts) > 2 THEN ParseFailed(TooManyDelimitersErr(key))
        ELSE LET claim == TrimSpace(parts[1])
                 placeholder == TrimSpace(parts[Len(parts)])
             IN  IF claim = <<>> THEN ParseFailed(EmptyClaimErr(key))
                 ELSE [claim |-> claim, placeholder |-> placeholder,
                       err |-> NilErr]

parseMetaClaim(key) ==
    LET parts == SplitOn(key, arrow)
    IN  IF Len(parts) > 2 THEN ParseFailed(TooManyDelimitersErr(key))
        ELSE LET claim == TrimSpace(parts[1])
                 placeholder == TrimSpace(parts[Len(parts)])
             IN  IF claim = <<>> THEN ParseFailed(EmptyClaimErr(key))
                 ELSE IF placeholder = <<>>
                      THEN ParseFailed(EmptyPlaceholderErr(key))
                      ELSE [claim |-> claim, placeholder |-> placeholder,
                            err |-> NilErr]

\* longest meta_claims argument, counted in pieces
MaxKeyPieces == 5

KeyPieces == {<<"a">>, <<"b">>, <<" ">>, <<"\t">>, <<"\"">>, arrow}

MetaClaimKeys == {Concat(ps) : ps \in SeqsUpTo(KeyPieces, MaxKeyPieces)}

InitMetaClaim ==
    /\ IdleAuth
    /\ fn \in {[op |-> "parseMetaClaim", key |-> k, done |-> FALSE,
                out |-> ParseFailed(NilErr)] : k \in MetaClaimKeys}

\* claim, placeholder, err := parseMetaClaim(metaClaim)
CallParseMetaClaim ==
    /\ fn.op = "parseMetaClaim"
    /\ ~fn.done
    /\ fn' = [fn EXCEPT !.done = TRUE, !.out = parseMetaClaim(fn.key)]
    /\ UNCHANGED authVars

NextMetaClaim == CallParseMetaClaim

SpecMetaClaim == InitMetaClaim /\ [][NextMetaClaim]_vars

\* the positions of key where a "->" starts
ArrowsAt(key) ==
    {i \in 1..(Len(key) - 1) : key[i] = "-" /\ key[i + 1] = ">"}

FirstArrow(key) == FirstOf(ArrowsAt(key))

LeftOf(key) == TrimSpace(SubSeq(key, 1, FirstArrow(key) - 1))

RightOf(key) == TrimSpace(SubSeq(key, FirstArrow(key) + 2, Len(key)))

\* the keys the claim rejects: more than one "->", or a side that is empty
\* once trimmed
Malformed(key) ==
    CASE Cardinality(ArrowsAt(key)) = 0 -> TrimSpace(key) = <<>>
      [] Cardinality(ArrowsAt(key)) = 1 ->
           LeftOf(key) = <<>> \/ RightOf(key) = <<>>
      [] OTHER -> TRUE

\* what parseMetaClaim returns on the keys the claim accepts
WellFormedParsed ==
    ~Malformed(fn.key) =>
      /\ fn.out.err.isNil
      /\ IF ArrowsAt(fn.key) = {}
         THEN /\ fn.out.claim = TrimSpace(fn.key)
              /\ fn.out.placeholder = TrimSpace(fn.key)
         ELSE /\ fn.out.claim = LeftOf(fn.key)
              /\ fn.out.placeholder = RightOf(fn.key)

MetaClaimParsed == fn.op = "parseMetaClaim" /\ fn.done

----------------------------------------------------------------------------
(* parseCaddyfile: the options of one pasetoauth block, read in order *)

\* fmt "invalid meta_claims: %w"
InvalidMetaClaimsErr(err) ==
    Err(<<"i","n","v","a","l","i","d"," ","m","e","t","a","_","c","l","a",
          "i","m","s",":"," ">> \o err.msg)

\* fmt "invalid meta_claims: duplicate claim: %s"
DuplicateClaimErr(claim) ==
    Err(<<"i","n","v","a","l","i","d"," ","m","e","t","a","_","c","l","a",
          "i","m","s",":"," ","d","u","p","l","i","c","a","t","e"," ","c",
          "l","a","i","m",":"," ">> \o claim)

\* fmt "unrecognized option: %s"
UnrecognizedOptionErr(opt) ==
    Err(<<"u","n","r","e","c","o","g","n","i","z","e","d"," ","o","p","t",
          "i","o","n",":"," ">> \o opt)

RECURSIVE AddMetaClaims_Overwrite(_, _)
\* a loop that lets a later entry of a claim replace the earlier one
AddMetaClaims_Overwrite(m, args) ==
    IF args = <<>> THEN [MetaClaims |-> m, err |-> NilErr]
    ELSE LET q == parseMetaClaim(Head(args))
         IN  IF ~q.err.isNil
             THEN [MetaClaims |-> m, err |-> InvalidMetaClaimsErr(q.err)]
             ELSE AddMetaClaims_Overwrite(
                      (q.claim :> q.placeholder) @@ m, Tail(args))

RECURSIVE AddMetaClaims(_, _)
\* the loop over h.RemainingArgs() of the meta_claims case
AddMetaClaims(m, args) ==
    IF args = <<>> THEN [MetaClaims |-> m, err |-> NilErr]
    ELSE LET q == parseMetaClaim(Head(args))
         IN  IF ~q.err.isNil
             THEN [MetaClaims |-> m, err |-> InvalidMetaClaimsErr(q.err)]
             ELSE IF q.claim \in DOMAIN m
                  THEN [MetaClaims |-> m, err |-> DuplicateClaimErr(q.claim)]
                  ELSE AddMetaClaims((q.claim :> q.placeholder) @@ m,
                                     Tail(args))

metaClaimsOpt == <<"m","e","t","a","_","c","l","a","i","m","s">>
userClaimsOpt == <<"u","s","e","r","_","c","l","a","i","m","s">>
upstreamOpt   == <<"u","p","s","t","r","e","a","m">>

\* most arguments of one meta_claims option
MaxMetaArgs == 3

MetaClaimArgs ==
    {<<"a">>,
     <<"a"," ","-",">"," ","x">>,
     <<"b","-",">","x">>,
     <<"b">>,
     <<"a","-",">">>}

MetaArgLists == SeqsUpTo(MetaClaimArgs, MaxMetaArgs)

Option(opt, args) == [opt |-> opt, args |-> args]

\* blocks with one meta_claims option, with two of them, and with another
\* option in front
Blocks ==
    {<<>>}
    \cup {<<Option(metaClaimsOpt, a)>> : a \in MetaArgLists}
    \cup {<<Option(metaClaimsOpt, a), Option(metaClaimsOpt, b)>> :
             a \in MetaArgLists, b \in SeqsUpTo(MetaClaimArgs, 1)}
    \cup {<<Option(o, <<uid>>), Option(metaClaimsOpt, a)>> :
             o \in {userClaimsOpt, upstreamOpt},
             a \in SeqsUpTo(MetaClaimArgs, 1)}

InitCaddyfile ==
    /\ IdleAuth
    /\ fn \in {[op |-> "parseCaddyfile", block |-> b, i |-> 1,
                MetaClaims |-> NoMeta, UserClaims |-> <<>>,
                done |-> FALSE, err |-> NilErr] : b \in Blocks}

AtOption(opt) ==
    /\ fn.op = "parseCaddyfile"
    /\ ~fn.done
    /\ fn.i <= Len(fn.block)
    /\ fn.block[fn.i].opt = opt

\* case "meta_claims"
OptMetaClaims ==
    /\ AtOption(metaClaimsOpt)
    /\ LET res == AddMetaClaims(NoMeta, fn.block[fn.i].args)
       IN  fn' = [fn EXCEPT !.MetaClaims = res.MetaClaims,
                            !.err = res.err,
                            !.done = ~res.err.isNil,
                            !.i = @ + 1]
    /\ UNCHANGED authVars

\* case "user_claims"
OptUserClaims ==
    /\ AtOption(userClaimsOpt)
    /\ fn' = [fn EXCEPT !.UserClaims = fn.block[fn.i].args, !.i = @ + 1]
    /\ UNCHANGED authVars

\* default: unrecognized option
OptUnrecognized ==
    /\ fn.op = "parseCaddyfile"
    /\ ~fn.done
    /\ fn.i <= Len(fn.block)
    /\ fn.block[fn.i].opt \notin {metaClaimsOpt, userClaimsOpt}
    /\ fn' = [fn EXCEPT !.err = UnrecognizedOptionErr(fn.block[fn.i].opt),
                        !.done = TRUE]
    /\ UNCHANGED authVars

\* the block is read: return the handler
BlockRead ==
    /\ fn.op = "parseCaddyfile"
    /\ ~fn.done
    /\ fn.i > Len(fn.block)
    /\ fn' = [fn EXCEPT !.done = TRUE]
    /\ UNCHANGED authVars

NextCaddyfile ==
    \/ OptMetaClaims
    \/ OptUserClaims
    \/ OptUnrecognized
    \/ BlockRead

SpecCaddyfile == InitCaddyfile /\ [][NextCaddyfile]_vars

CaddyfileParsed == fn.op = "parseCaddyfile" /\ fn.done

duplicateClaimText == <<"d","u","p","l","i","c","a","t","e"," ","c","l","a","i","m">>

EntryOK(e) == parseMetaClaim(e).err.isNil

EntryClaim(e) == parseMetaClaim(e).claim

\* the entries of a list that name a claim an earlier entry names
Repeats(args) ==
    {k \in 1..Len(args) :
        /\ EntryOK(args[k])
        /\ \E j \in 1..(k - 1) :
              EntryOK(args[j]) /\ EntryClaim(args[j]) = EntryClaim(args[k])}

\* the entries of a list the parser stops at
Faults(args) == Repeats(args) \cup {k \in 1..Len(args) : ~EntryOK(args[k])}

MetaOptions(block) ==
    {i \in 1..Len(block) : block[i].opt = metaClaimsOpt}

\* every meta_claims entry of the block, in the order of the block
RECURSIVE MetaEntries(_)
MetaEntries(block) ==
    IF block = <<>> THEN <<>>
    ELSE (IF Head(block).opt = metaClaimsOpt THEN Head(block).args ELSE <<>>)
           \o MetaEntries(Tail(block))

KnownOptions(block) ==
    \A i \in 1..Len(block) : block[i].opt \in {metaClaimsOpt, userClaimsOpt}

\* the mapping a list of well-formed entries with distinct claims stands for
MappingOf(args) ==
    [c \in {EntryClaim(args[k]) : k \in 1..Len(args)} |->
        parseMetaClaim(
          args[CHOOSE k \in 1..Len(args) : EntryClaim(args[k]) = c]
        ).placeholder]

\* C17 as stated: a configuration whose meta_claims entries give the same
\* claim name more than once fails with a 'duplicate claim' error, and on
\* success the mapping has exactly one placeholder for each listed claim.
C17_DuplicateAmongAllEntries ==
    (/\ CaddyfileParsed
     /\ KnownOptions(fn.block)
     /\ \A k \in 1..Len(MetaEntries(fn.block)) :
           EntryOK(MetaEntries(fn.block)[k])) =>
      /\ Repeats(MetaEntries(fn.block)) # {} =>
           /\ ~fn.err.isNil
           /\ HasSubstr(fn.err.msg, duplicateClaimText)
      /\ fn.err.isNil =>
           DOMAIN fn.MetaClaims =
             {EntryClaim(MetaEntries(fn.block)[k]) :
                k \in 1..Len(MetaEntries(fn.block))}

\* C17 amended: each meta_claims option starts a new mapping. A
\* configuration parses only if no meta_claims option gives the same claim
\* name twice among its own entries; the option the parser stops at, when
\* its first faulty entry is a repeated claim, fails with 'duplicate claim'
\* and the name of the claim. On success the mapping is that of the last
\* meta_claims option: one placeholder for each claim that option lists,
\* and none for the claims only earlier options list.
C17_DuplicateWithinOption ==
    CaddyfileParsed =>
      /\ fn.err.isNil =>
           /\ \A i \in MetaOptions(fn.block) : Faults(fn.block[i].args) = {}
           /\ IF MetaOptions(fn.block) = {} THEN fn.MetaClaims = NoMeta
              ELSE LET last == CHOOSE i \in MetaOptions(fn.block) :
                                 \A j \in MetaOptions(fn.block) : j <= i
                   IN  fn.MetaClaims = MappingOf(fn.block[last].args)
      /\ \A i \in MetaOptions(fn.block) :
           (/\ \A j \in 1..(i - 1) :
                  /\ fn.block[j].opt \in {metaClaimsOpt, userClaimsOpt}
                  /\ fn.block[j].opt = metaClaimsOpt
                       => Faults(fn.block[j].args) = {}
            /\ Faults(fn.block[i].args) # {}
            /\ FirstOf(Faults(fn.block[i].args))
                 \in Repeats(fn.block[i].args)) =>
             fn.err = DuplicateClaimErr(EntryClaim(
                        fn.block[i].args[FirstOf(Faults(fn.block[i].args))]))

C17_Witness ==
    /\ CaddyfileParsed
    /\ fn.err.isNil
    /\ fn.block = <<Option(metaClaimsOpt, <<<<"b">>, <<"a">>>>),
                    Option(metaClaimsOpt,
                           <<<<"a"," ","-",">"," ","x">>>>)>>
    /\ fn.MetaClaims = (<<"a">> :> <<"x">>)

----------------------------------------------------------------------------
(* Two Authenticate calls on one instance. The variables r .. validated   *)
(* are the locals of the call that runs; the locals of the other call are *)
(* parked in fn.frame, and Switch hands the processor to the other call.  *)
(* The instance p and the log handler are the same for both. A call is    *)
(* interleaved between two iterations of its loop: inside an iteration it *)
(* only reads p and appends to the log.                                   *)

ConcurrentConfigs ==
    {[FromQuery |-> <<qToken>>, FromHeader |-> <<>>, FromCookies |-> <<>>]
       @@ q : q \in {pol \in Policies :
                       /\ pol.UserClaims = <<sub>>
                       /\ pol.AllowAudiences = <<>>
                       /\ pol.AllowIssuers = <<>>}}

ConcurrentRequests ==
    {Request(f) :
       f \in UNION {[C -> {tokV1, tokV2, tokEx, tokNu,
                           <<"B","e","a","r","e","r"," ">>}] :
                      C \in SUBSET {<<"query", qToken>>,
                                    <<"header", hAuthorization>>}}}

\* the locals of a call that has not started yet
NewFrame(req) ==
    [r |-> req, pc |-> "start", candidates |-> <<>>,
     extraValidRules |-> <<>>, checked |-> {}, idx |-> 1,
     ret |-> [user |-> EmptyUser, authenticated |-> FALSE, err |-> "nil"],
     parsed |-> <<>>, validated |-> <<>>]

InitConcurrent ==
    /\ p \in ConcurrentConfigs
    /\ r \in ConcurrentRequests
    /\ pc = "start"
    /\ candidates = <<>>
    /\ extraValidRules = <<>>
    /\ checked = {}
    /\ idx = 1
    /\ ret = [user |-> EmptyUser, authenticated |-> FALSE, err |-> "nil"]
    /\ parsed = <<>>
    /\ validated = <<>>
    /\ log = <<>>
    /\ \E req \in ConcurrentRequests :
          fn = [op |-> "concurrent", running |-> 1,
                frame |-> NewFrame(req),
                config |-> p, requests |-> <<r, req>>]

\* the locals of the running call, as they are parked
Parked ==
    [r |-> r, pc |-> pc, candidates |-> candidates,
     extraValidRules |-> extraValidRules, checked |-> checked,
     idx |-> idx, ret |-> ret, parsed |-> parsed, validated |-> validated]

\* a Switch on an instance that keeps the checked set for all its calls
Switch_SharedChecked ==
    /\ fn.op = "concurrent"
    /\ fn' = [fn EXCEPT !.running = 3 - @, !.frame = Parked]
    /\ r' = fn.frame.r
    /\ pc' = fn.frame.pc
    /\ candidates' = fn.frame.candidates
    /\ extraValidRules' = fn.frame.extraValidRules
    /\ idx' = fn.frame.idx
    /\ ret' = fn.frame.ret
    /\ parsed' = fn.frame.parsed
    /\ validated' = fn.frame.validated
    /\ UNCHANGED <<p, log, checked>>

\* the other call runs: every local of Authenticate, the checked set
\* included, belongs to the call
Switch ==
    /\ fn.op = "concurrent"
    /\ fn' = [fn EXCEPT !.running = 3 - @, !.frame = Parked]
    /\ r' = fn.frame.r
    /\ pc' = fn.frame.pc
    /\ candidates' = fn.frame.candidates
    /\ extraValidRules' = fn.frame.extraValidRules
    /\ checked' = fn.frame.checked
    /\ idx' = fn.frame.idx
    /\ ret' = fn.frame.ret
    /\ parsed' = fn.frame.parsed
    /\ validated' = fn.frame.validated
    /\ UNCHANGED <<p, log>>

NextConcurrent ==
    \/ Collect
    \/ SkipDuplicate
    \/ ParseFail
    \/ ValidateFail
    \/ NoUserID
    \/ UserNotAllowed
    \/ Accept
    \/ Exhausted
    \/ Switch

SpecConcurrent == InitConcurrent /\ [][NextConcurrent]_vars

\* C18: Authenticate never changes the configuration nor the request of a
\* call, and keeps no state of one call for another: whatever the
\* interleaving with a second call on the same instance, a call returns
\* what it returns alone, the identity and metadata of its first
\* acceptable carrier, or unauthenticated when it has none.
C18_CallsDoNotInterfere ==
    fn.op = "concurrent" =>
      /\ p = fn.config
      /\ r = fn.requests[fn.running]
      /\ fn.frame.r = fn.requests[3 - fn.running]
      /\ Done =>
           IF GoodCarriers = {} THEN ~ret.authenticated
           ELSE LET tok == normToken(
                             ValueAt(CarrierOrder[FirstOf(GoodCarriers)]))
                IN  /\ ret.authenticated
                    /\ ret.user.ID = IdentityOf(tok)
                    /\ ret.user.Metadata \in
                         getUserMetadata(ParseToken(tok).token.claims,
                                         p.MetaClaims)

\* both calls have returned, and the log shows that the second call
\* evaluated its candidate between the two candidates of the first: the
\* first call checked an expired token and was then accepted with a token
\* the second call had checked and been accepted with in between
C18_Witness ==
    /\ fn.op = "concurrent"
    /\ Done
    /\ fn.frame.pc = "done"
    /\ ret.authenticated
    /\ fn.frame.ret.authenticated
    /\ Len(parsed) = 2
    /\ Len(fn.frame.parsed) = 1
    /\ parsed[2].tokenStr = fn.frame.parsed[1].tokenStr
    /\ Len(log) = 3
    /\ log[1].level = "WARN"
    /\ log[2].level = "INFO" /\ log[2].i = 1
    /\ log[3].level = "INFO" /\ log[3].i = 2

----------------------------------------------------------------------------
(* Empty candidates and diagnostics of Authenticate *)

\* C19: the parser is never called on an empty token string: a carrier
\* whose value is empty, or becomes empty once normalized (white space
\* only, or only the "Bearer " prefix), is skipped.
C19_ParserNeverGetsEmptyToken ==
    \A n \in 1..Len(parsed) : parsed[n].tokenStr # <<>>

\* every evaluated candidate has its one record, in the order of the
\* evaluation, with the masked token; the record is an info record for the
\* accepted candidate and a warning for every other
RecordPerCandidate ==
    /\ Len(log) >= Len(parsed)
    /\ \A k \in 1..Len(parsed) :
          /\ log[k].i = parsed[k].i
          /\ log[k].token = maskToken(parsed[k].tokenStr)
          /\ log[k].level \in {"WARN", "INFO"}
          /\ log[k].level = "INFO"
               <=> (Done /\ ret.authenticated /\ k = Len(parsed))

\* C20 as stated: every evaluated candidate emits exactly one record with
\* the masked token, a warning when it is skipped and an info record when
\* it is accepted, and every request emits one final outcome record, also
\* when it ends unauthenticated.
C20_FinalOutcomeRecord ==
    /\ RecordPerCandidate
    /\ (Done /\ ~ret.authenticated) => Len(log) = Len(parsed) + 1

\* C20 amended: every evaluated candidate emits exactly one record with the
\* masked token, a warning when it is skipped and an info record when it is
\* accepted, and nothing else is ever logged: the info record of the
\* accepted candidate is the last record of an authenticated request, and a
\* request that ends unauthenticated has only the warnings of its
\* candidates, none when it has no candidate.
C20_OneRecordPerCandidate ==
    /\ RecordPerCandidate
    /\ Len(log) = Len(parsed)
    /\ (Done /\ ~ret.authenticated) => \A k \in 1..Len(log) : IsWarn(log[k])
    /\ (Done /\ ret.authenticated) => log[Len(log)].level = "INFO"

\* a request that ended unauthenticated after two candidates, one of them
\* long enough for its record to show the mask and not the token
C20_Witness ==
    /\ Done
    /\ ~ret.authenticated
    /\ Len(log) = 2
    /\ Len(parsed) = 2
    /\ \E k \in 1..2 : log[k].token # parsed[k].tokenStr

----------------------------------------------------------------------------
(* stringify on its own: claim values of every kind *)

\* longest sequence handed to stringify
MaxSliceLen == 3

\* the elements of a sequence claim: scalars, a mapping, and sequences
\* inside the sequence
SliceElems ==
    {NullVal, StrVal(<<>>), StrVal(<<"a">>), BoolVal(TRUE), BoolVal(FALSE),
     NumVal(1), NumVal(-20), MapVal(sub :> StrVal(eva)),
     SliceVal(<<>>),
     SliceVal(<<StrVal(<<"b">>), NumVal(105)>>),
     SliceVal(<<SliceVal(<<StrVal(<<"c">>), NullVal>>), BoolVal(TRUE)>>)}

StringifyInputs ==
    SliceElems
      \cup {NumVal(0), NumVal(100), NumVal(7), StrVal(eva)}
      \cup {SliceVal(e) : e \in SeqsUpTo(SliceElems, MaxSliceLen)}

InitStringify ==
    /\ IdleAuth
    /\ fn \in {[op |-> "stringify", val |-> v, done |-> FALSE,
                out |-> <<>>] : v \in StringifyInputs}

\* claimValueStr = stringify(claimValue)
CallStringify ==
    /\ fn.op = "stringify"
    /\ ~fn.done
    /\ fn' = [fn EXCEPT !.done = TRUE, !.out = stringify(fn.val)]
    /\ UNCHANGED authVars

NextStringify == CallStringify

SpecStringify == InitStringify /\ [][NextStringify]_vars

Stringified == fn.op = "stringify" /\ fn.done

DigitValue(c) == CHOOSE d \in 0..9 : Digits[d + 1] = c

IsDigit(c) == \E d \in 0..9 : Digits[d + 1] = c

RECURSIVE NatOf(_)
\* the number a string of digits writes
NatOf(s) ==
    IF s = <<>> THEN 0
    ELSE 10 * NatOf(SubSeq(s, 1, Len(s) - 1)) + DigitValue(s[Len(s)])

\* s is the decimal form of the integer n: an optional sign, digits only,
\* no point, no exponent, no zero in front, no zero behind a point
IsDecimalOf(s, n) ==
    LET digits == IF n < 0 THEN Tail(s) ELSE s
    IN  /\ s # <<>>
        /\ (n < 0) <=> (s[1] = "-")
        /\ digits # <<>>
        /\ \A i \in 1..Len(digits) : IsDigit(digits[i])
        /\ (Len(digits) > 1 => digits[1] # "0")
        /\ NatOf(digits) = (IF n < 0 THEN -n ELSE n)

RECURSIVE DigitsOf(_)
DigitsOf(n) ==
    IF n = 0 THEN <<>> ELSE DigitsOf(n \div 10) \o <<Digits[(n % 10) + 1]>>

\* the decimal form of an integer
DecimalOf(n) ==
    IF n = 0 THEN <<"0">>
    ELSE IF n < 0 THEN <<"-">> \o DigitsOf(-n) ELSE DigitsOf(n)

RECURSIVE Wanted(_)
\* the string the claim gives for a value; for a sequence the strings of
\* the elements, each followed by a comma except the last
Wanted(val) ==
    CASE val.kind = "nil"    -> <<>>
      [] val.kind = "string" -> val.s
      [] val.kind = "bool"   -> IF val.b THEN <<"t","r","u","e">>
                                ELSE <<"f","a","l","s","e">>
      [] val.kind = "float64" -> DecimalOf(val.n)
      [] val.kind = "slice"  ->
           LET n == Len(val.elems)
               piece(i) == Wanted(val.elems[i])
                             \o (IF i < n THEN <<",">> ELSE <<>>)
               upTo[i \in 0..n] ==
                   IF i = 0 THEN <<>> ELSE upTo[i - 1] \o piece(i)
           IN  upTo[n]
      [] OTHER -> <<>>

\* C21: stringify gives "" for nil, the string itself for a string, "true"
\* or "false" for a boolean, the decimal form without point or trailing
\* zeros for an integral number, the comma-joined strings of its elements
\* for a sequence ("" for the empty one, sequences inside a sequence joined
\* the same way), and "" for a mapping.
C21_StringifyTotal ==
    Stringified =>
      /\ fn.out = Wanted(fn.val)
      /\ fn.val.kind = "float64" => IsDecimalOf(fn.out, fn.val.n)
      /\ fn.val.kind = "map" => fn.out = <<>>
      /\ fn.val = SliceVal(<<>>) => fn.out = <<>>

C21_Witness ==
    /\ Stringified
    /\ fn.val = SliceVal(<<SliceVal(<<StrVal(<<"b">>), NumVal(105)>>),
                           MapVal(sub :> StrVal(eva)),
                           BoolVal(TRUE)>>)
    /\ fn.out = <<"b",",","1","0","5",",",",","t","r","u","e">>

----------------------------------------------------------------------------
(* maskToken on its own: short tokens of every shape, long ones by length *)

\* longest token whose every spelling over two characters is tried
MaxSpelledLen == 9

\* longest token tried
MaxTokenLen == 52

\* a token of n characters, no two neighbours alike
PatternToken(n) == [i \in 1..n |-> Digits[(i % 10) + 1]]

MaskInputs ==
    SeqsUpTo({"a", "."}, MaxSpelledLen)
      \cup {PatternToken(n) : n \in 0..MaxTokenLen}

InitMask ==
    /\ IdleAuth
    /\ fn \in {[op |-> "maskToken", token |-> t, done |-> FALSE,
                out |-> <<>>] : t \in MaskInputs}

\* p.logger.With("token", maskToken(tokenStr))
CallMaskToken ==
    /\ fn.op = "maskToken"
    /\ ~fn.done
    /\ fn' = [fn EXCEPT !.done = TRUE, !.out = maskToken(fn.token)]
    /\ UNCHANGED authVars

NextMask == CallMaskToken

SpecMask == InitMask /\ [][NextMask]_vars

Masked == fn.op = "maskToken" /\ fn.done

\* m = min(n div 3, 16)
MaskLen(n) == IF n \div 3 <= 16 THEN n \div 3 ELSE 16

\* the prefix...suffix form of the claim, and its bounds on what is shown
MaskShape ==
    LET n == Len(fn.token)
        m == MaskLen(n)
    IN  IF n <= 6 THEN fn.out = fn.token
        ELSE /\ fn.out = SubSeq(fn.token, 1, m) \o <<".", ".", ".">>
                           \o SubSeq(fn.token, n - m + 1, n)
             /\ 2 * m <= 32
             /\ 3 * (2 * m) <= 2 * n

\* C22 as stated: a token of at most 6 characters is returned unchanged; a
\* longer one of n characters gives its first m and last m characters
\* around "...", m = min(n div 3, 16), which shows at most 32 characters,
\* at most two thirds of the token, and never equals the token.
C22_MaskNeverEqualsToken ==
    Masked =>
      /\ MaskShape
      /\ Len(fn.token) > 6 => fn.out # fn.token

\* C22 amended: as above, except that the masked form equals the token when
\* the token has 7 or 9 characters and "..." in its middle ("ab...cd",
\* "abc...def"); in every other case of n > 6 it differs from the token.
C22_MaskToken ==
    Masked =>
      /\ MaskShape
      /\ Len(fn.token) > 6 =>
           (fn.out = fn.token
              <=> /\ Len(fn.token) \in {7, 9}
                  /\ SubSeq(fn.token, MaskLen(Len(fn.token)) + 1,
                            MaskLen(Len(fn.token)) + 3) = <<".", ".", ".">>)

C22_Witness ==
    /\ Masked
    /\ fn.token = <<"a", "a", ".", ".", ".", "a", "a">>
    /\ fn.out = fn.token

----------------------------------------------------------------------------
(* Algebra of normToken and of the metadata *)

\* C23: normToken is idempotent: normalizing a normalized candidate gives
\* the same string, so no strippable "bearer " prefix and no surrounding
\* white space is left behind.
C23_NormTokenIdempotent ==
    NormDone => normToken(fn.out) = fn.out

InitMetadataRuns ==
    /\ IdleAuth
    /\ fn \in {[op |-> "getUserMetadata runs", claims |-> c,
                placeholdersMap |-> m, runs |-> <<>>] :
                 c \in MetaPayloads, m \in MetaMappings}

\* one more call of getUserMetadata on the same claims and mapping
RunGetUserMetadata ==
    /\ fn.op = "getUserMetadata runs"
    /\ Len(fn.runs) < 2
    /\ \E md \in getUserMetadata(fn.claims, fn.placeholdersMap) :
          fn' = [fn EXCEPT !.runs = Append(@, md)]
    /\ UNCHANGED authVars

NextMetadataRuns == RunGetUserMetadata

SpecMetadataRuns == InitMetadataRuns /\ [][NextMetadataRuns]_vars

\* C24: the metadata is a function of the claims and of the meta_claims
\* mapping: two calls on the same claims and mapping return equal metadata,
\* also when two claims are mapped to the same placeholder.
C24_MetadataDeterministic ==
    (fn.op = "getUserMetadata runs" /\ Len(fn.runs) = 2) =>
      fn.runs[1] = fn.runs[2]

----------------------------------------------------------------------------
(* Authenticate to its return: requests with every carrier filled,         *)
(* and a call that can take a step takes it                                *)

\* requests with every carrier filled, with the Authorization header
\* alone, and with nothing
FullRequests ==
    {Request(f) :
       f \in [Carriers -> {tokV2, tokEx, <<"B","e","a","r","e","r"," ">>}]
             \cup [{<<"header", hAuthorization>>} ->
                     {tokV1, tokV2, tokEx, tokNu}]
             \cup [{} -> {tokV1}]}

\* every source is configured; no rule, or only some users allowed
ReturnConfigs ==
    {[FromQuery |-> <<qToken, qT2>>, FromHeader |-> <<hXToken>>,
      FromCookies |-> <<cAuth>>] @@ q :
        q \in {pol \in Policies :
                 /\ pol.UserClaims = <<sub>>
                 /\ pol.AllowAudiences = <<>>
                 /\ pol.AllowIssuers = <<>>}}

InitReturn ==
    /\ p \in ReturnConfigs
    /\ r \in FullRequests
    /\ pc = "start"
    /\ candidates = <<>>
    /\ extraValidRules = <<>>
    /\ checked = {}
    /\ idx = 1
    /\ ret = [user |-> EmptyUser, authenticated |-> FALSE, err |-> "nil"]
    /\ parsed = <<>>
    /\ validated = <<>>
    /\ log = <<>>
    /\ fn = NoCall

\* the call runs on: no step of Authenticate waits for anything
SpecReturn == InitReturn /\ [][Next]_vars /\ WF_vars(Next)

DistinctCandidates == {NormAt(i) : i \in 1..Len(candidates)}

\* the parser and the validator are called no more often than the claim
\* allows
CallsBounded ==
    /\ Len(parsed) <= Cardinality(DistinctCandidates)
    /\ Cardinality(DistinctCandidates)
         <= Len(p.FromQuery) + Len(p.FromHeader) + Len(p.FromCookies) + 1
    /\ \A n \in 1..Len(validated) :
          /\ ~ParseToken(validated[n].tokenStr).err
          /\ \E k \in 1..Len(parsed) : parsed[k].i = validated[n].i
          /\ \A m \in 1..Len(validated) :
                validated[m].i = validated[n].i => m = n

\* C25: Authenticate returns on every request; in one call the parser is
\* called at most once per distinct normalized candidate, hence at most
\* |from_query| + |from_header| + |from_cookies| + 1 times, and the
\* validator at most once per candidate that was parsed.
C25_ReturnsWithBoundedCalls ==
    /\ []CallsBounded
    /\ <>Done

\* a returned call on four candidates, two of them the same token once
\* normalized, one of which the validator never saw
C25_Witness ==
    /\ Done
    /\ Len(candidates) >= 4
    /\ Len(parsed) < Len(candidates)
    /\ Len(parsed) >= 2
    /\ Len(validated) < Len(parsed)

----------------------------------------------------------------------------
(* TestLogHandler: handlers that share one record list, called from two    *)
(* goroutines. Every handler value has its own mu; records is a pointer to *)
(* the list of the handler it was derived from. The append of Handle reads *)
(* the list and writes it back: the two accesses are separate steps, so    *)
(* that calls which do not exclude each other can interleave between them. *)

\* most handlers: the one of NewTestLogHandler and those derived from it
MaxHandlers == 2

\* most Handle calls started
MaxHandleCalls == 3

Goroutines == {"g1", "g2"}

\* &TestLogHandler{records: ..., attrs: ..., groups: ...}: mu is new
NewHandler(attrs, groups) ==
    [mu |-> "unlocked", attrs |-> attrs, groups |-> groups]

InitLog ==
    /\ IdleAuth
    /\ fn = [op |-> "TestLogHandler",
             records |-> <<>>,
             handlers |-> <<NewHandler(<<>>, <<>>)>>,
             g |-> [t \in Goroutines |->
                      [pc |-> "idle", h |-> 1, local |-> <<>>]],
             started |-> 0,
             handled |-> 0]

LogOp == fn.op = "TestLogHandler"

\* WithAttrs: a new handler on the same records
WithAttrs(h) ==
    /\ LogOp
    /\ Len(fn.handlers) < MaxHandlers
    /\ fn.handlers[h].mu = "unlocked"
    /\ fn' = [fn EXCEPT !.handlers =
                Append(@, NewHandler(Append(fn.handlers[h].attrs, "token"),
                                     fn.handlers[h].groups))]
    /\ UNCHANGED authVars

\* WithGroup: the handler itself for the empty name, else a new handler on
\* the same records
WithGroup(h, name) ==
    /\ LogOp
    /\ IF name = ""
       THEN fn' = fn
       ELSE /\ Len(fn.handlers) < MaxHandlers
            /\ fn.handlers[h].mu = "unlocked"
            /\ fn' = [fn EXCEPT !.handlers =
                        Append(@, NewHandler(fn.handlers[h].attrs,
                                   Append(fn.handlers[h].groups, name)))]
    /\ UNCHANGED authVars

\* Handle: h.mu.Lock()
HandleLock(t, h) ==
    /\ LogOp
    /\ fn.g[t].pc = "idle"
    /\ fn.started < MaxHandleCalls
    /\ fn.handlers[h].mu = "unlocked"
    /\ fn' = [fn EXCEPT !.handlers[h].mu = t,
                        !.g[t].pc = "locked",
                        !.g[t].h = h,
                        !.started = @ + 1]
    /\ UNCHANGED authVars

\* Handle: the read of *h.records in append(*h.records, record)
HandleRead(t) ==
    /\ LogOp
    /\ fn.g[t].pc = "locked"
    /\ fn' = [fn EXCEPT !.g[t].local = fn.records, !.g[t].pc = "read"]
    /\ UNCHANGED authVars

\* Handle: *h.records = the list read, with the record appended
HandleWrite(t) ==
    /\ LogOp
    /\ fn.g[t].pc = "read"
    /\ fn' = [fn EXCEPT
                !.records =
                   Append(fn.g[t].local,
                          [by |-> t,
                           attrs |-> fn.handlers[fn.g[t].h].attrs,
                           groups |-> fn.handlers[fn.g[t].h].groups]),
                !.g[t].pc = "written"]
    /\ UNCHANGED authVars

\* Handle: the deferred h.mu.Unlock(), and the return
HandleUnlock(t) ==
    /\ LogOp
    /\ fn.g[t].pc = "written"
    /\ fn' = [fn EXCEPT !.handlers[fn.g[t].h].mu = "unlocked",
                        !.g[t].pc = "idle",
                        !.g[t].local = <<>>,
                        !.handled = @ + 1]
    /\ UNCHANGED authVars

\* Clear, under the mu of the handler it is called on
Clear(h) ==
    /\ LogOp
    /\ fn.handlers[h].mu = "unlocked"
    /\ fn.records # <<>>
    /\ \A t \in Goroutines : fn.g[t].pc = "idle"
    /\ fn' = [fn EXCEPT !.records = <<>>, !.handled = 0]
    /\ UNCHANGED authVars

NextLog ==
    \/ \E h \in 1..Len(fn.handlers) : WithAttrs(h)
    \/ \E h \in 1..Len(fn.handlers), name \in {"", "g"} : WithGroup(h, name)
    \/ \E t \in Goroutines, h \in 1..Len(fn.handlers) : HandleLock(t, h)
    \/ \E t \in Goroutines : HandleRead(t)
    \/ \E t \in Goroutines : HandleWrite(t)
    \/ \E t \in Goroutines : HandleUnlock(t)
    \/ \E h \in 1..Len(fn.handlers) : Clear(h)

SpecLog == InitLog /\ [][NextLog]_vars

\* Count()
Count == Len(fn.records)

InHandle(t) == fn.g[t].pc \in {"locked", "read", "written"}

\* C26: the handlers derived with WithAttrs or WithGroup share the record
\* list of their parent, no two Handle calls are inside their append at the
\* same time, whatever handlers they are called on, and when no call is
\* running Count is the number of Handle calls since the last Clear.
C26_NoRecordLost ==
    LogOp =>
      /\ \A t1, t2 \in Goroutines :
            (InHandle(t1) /\ InHandle(t2)) => t1 = t2
      /\ (\A t \in Goroutines : ~InHandle(t)) => Count = fn.handled

====
